---- MODULE Spec2Model ----
(***************************************************************************)
(* MockMedia: the virtual CAN bus adapter of                               *)
(* tests/transport/can/media/mock/_media.py.                               *)
(*                                                                         *)
(* Every public method of MockMedia is one action.  An action models the   *)
(* whole call: the exception it raises (or "ok"), every field it assigns   *)
(* and every reception callback it invokes, in invocation order.           *)
(* Timestamps are left out: no method reads them back.                     *)
(***************************************************************************)
EXTENDS Integers, Sequences, FiniteSets, TLC

\* ------------------------------------------------------------------ bounds
\* Longest batch handed to send_until / inject_received.
MaxBatch == 2
\* Longest configuration list handed to configure_acceptance_filters.
MaxConfigs == 2
\* Most frames a collector holds before something is popped.
MaxCollected == 2
\* Longest device name made of the characters the COM-port test looks at.
MaxName == 3

\* --------------------------------------------------------- value domains
Adapters == {"me", "pe"}

None == "None"
BASE == "BASE"
EXTENDED == "EXTENDED"
FrameFormats == {BASE, EXTENDED}

\* int(FrameFormat.X): the number of identifier bits of the format.
FormatBits(fmt) == IF fmt = BASE THEN 11 ELSE 29

\* The callables handed to start(): FrameCollector.give of two collectors.
Handlers == {"me_collector", "pe_collector"}
\* The handler installed by __init__: lambda _: None.
DefaultHandler == "lambda"

\* Exceptions a test arms with raise_on_send_once.
Exceptions == {"RuntimeError"}
ResourceClosedError == "ResourceClosedError"
AssertionError == "AssertionError"
Ok == "ok"

DataFrame(id, data, fmt, lb) ==
    [identifier |-> id, data |-> data, format |-> fmt, loopback |-> lb]

FilterConfiguration(id, mask, fmt) ==
    [identifier |-> id, mask |-> mask, format |-> fmt]

\* FilterConfiguration.new_promiscuous(): mask 0, any format.
new_promiscuous == FilterConfiguration(0, 0, None)

\* Constructor arguments.
MTUs == {1}

\* The two-adapter bus (Spec): me and pe on one peer set, one-slot banks.
BusSizes == {1}
BusHandlers == {"me_collector"}
BusFlags == {FALSE}
BusFilterConfigs == { new_promiscuous }
BusFrames ==
    { DataFrame(0, <<97>>, EXTENDED, FALSE),
      DataFrame(0, <<98>>, BASE, TRUE),
      DataFrame(123, <<100, 101>>, EXTENDED, TRUE) }

\* One adapter alone on its peer set (SpecAdapter): every argument varies.
AdapterSizes == {0, 1, 2}
AdapterFilterConfigs == { new_promiscuous, FilterConfiguration(123, 127, None) }
AdapterFrames ==
    { DataFrame(123, <<100, 101>>, EXTENDED, FALSE),
      DataFrame(0, <<98>>, BASE, TRUE),
      DataFrame(0, <<>>, EXTENDED, TRUE) }

SeqsUpTo(S, n) == UNION { [1..k -> S] : k \in 0..n }

\* ------------------------------------------------------------------ state
VARIABLES
    constructed,                        \* adapters whose __init__ has run
    peers,                              \* the shared set handed to __init__
    mtu,                                \* _mtu
    rx_handler,                         \* _rx_handler
    acceptance_filters,                 \* _acceptance_filters
    automatic_retransmission_enabled,   \* _automatic_retransmission_enabled
    closed,                             \* _closed
    raise_on_send_once,                 \* _raise_on_send_once
    caller_configuration,               \* the caller's list object after configure_acceptance_filters
    last,                               \* the last call: method, receiver, arguments, outcome
    calls,                              \* callback invocations made by the last call, in order
    collected,                          \* FrameCollector._collected of each collector
    sending,                            \* the send_until call in progress, when callbacks re-enter
    driver                              \* what make_driver returned for which device name

fields == <<mtu, rx_handler, acceptance_filters, automatic_retransmission_enabled,
            closed, raise_on_send_once>>
vars == <<constructed, peers, mtu, rx_handler, acceptance_filters,
          automatic_retransmission_enabled, closed, raise_on_send_once,
          caller_configuration, last, calls, collected, sending, driver>>

NoCall ==
    [op |-> "none", self |-> None, frames |-> <<>>, configuration |-> <<>>,
     handler |-> None, no_automatic_retransmission |-> FALSE, ex |-> None,
     outcome |-> Ok, returned |-> 0,
     number_of_acceptance_filters |-> 0, popped |-> <<>>]

\* --------------------------------------------------------- pure functions
\* Python's & on non-negative integers.
RECURSIVE BitAnd(_, _)
BitAnd(x, y) ==
    IF x = 0 \/ y = 0 THEN 0
    ELSE 2 * BitAnd(x \div 2, y \div 2)
         + (IF x % 2 = 1 /\ y % 2 = 1 THEN 1 ELSE 0)

\* A dead filter that forgets the format: FilterConfiguration(0, mask, None).
_make_dead_filter_any_format == FilterConfiguration(0, 2 ^ FormatBits(BASE) - 1, None)

\* _make_dead_filter(): FilterConfiguration(0, 2 ** int(fmt) - 1, fmt), fmt = BASE.
_make_dead_filter == FilterConfiguration(0, 2 ^ FormatBits(BASE) - 1, BASE)

\* The lambda of _test_acceptance, for one slot f.
slot_accepts(frame, f) ==
    /\ BitAnd(frame.identifier, f.mask) = BitAnd(f.identifier, f.mask)
    /\ (f.format = None \/ frame.format = f.format)

\* any(map(lambda f: ..., bank)): the slots are tried in order, first hit wins.
RECURSIVE any_slot(_, _, _)
any_slot(frame, bank, i) ==
    IF i > Len(bank) THEN FALSE
    ELSE IF slot_accepts(frame, bank[i]) THEN TRUE
    ELSE any_slot(frame, bank, i + 1)

\* all(...) in place of any(...).
_test_acceptance_all(bank, frame) ==
    \A i \in 1..Len(bank) : slot_accepts(frame, bank[i])

_test_acceptance(bank, frame) == any_slot(frame, bank, 1)

\* list(filter(self._test_acceptance, frames))
RECURSIVE filter_accepted(_, _)
filter_accepted(bank, frames) ==
    IF frames = <<>> THEN <<>>
    ELSE (IF _test_acceptance(bank, Head(frames)) THEN <<Head(frames)>> ELSE <<>>)
         \o filter_accepted(bank, Tail(frames))

\* A _receive that calls the handler with whatever the filter leaves.
_receive_always(p, frames) ==
    << [to |-> p, handler |-> rx_handler[p],
        frames |-> filter_accepted(acceptance_filters[p], frames)] >>

\* _receive(frames) on adapter p: the callback invocations it makes.
_receive(p, frames) ==
    LET accepted == filter_accepted(acceptance_filters[p], frames)
    IN  IF accepted # <<>>
        THEN << [to |-> p, handler |-> rx_handler[p], frames |-> accepted] >>
        ELSE <<>>

\* TimestampedDataFrame(identifier=f.identifier, data=f.data, format=f.format, loopback=lb)
Tagged(f, lb) == DataFrame(f.identifier, f.data, f.format, lb)

\* A broadcast that trusts the transmitted frame's loopback flag.
broadcast_copy_keeps_flag(f) == Tagged(f, f.loopback)

\* The frame a peer is handed: the loopback flag is cleared unconditionally.
broadcast_copy(f) == Tagged(f, FALSE)

\* A broadcast that hands the batch over back to front.
broadcast_frames_reversed(frames) ==
    [i \in 1..Len(frames) |-> broadcast_copy(frames[Len(frames) + 1 - i])]

\* The generator handed to a peer's _receive.
broadcast_frames(frames) == [i \in 1..Len(frames) |-> broadcast_copy(frames[i])]

\* A loopback that hands back every frame, requested or not.
loopback_frames_unconditional(frames) == [i \in 1..Len(frames) |-> Tagged(frames[i], TRUE)]

\* The generator handed to the sender's own _receive: ... for f in frames if f.loopback
RECURSIVE loopback_frames(_)
loopback_frames(frames) ==
    IF frames = <<>> THEN <<>>
    ELSE (IF Head(frames).loopback THEN <<Tagged(Head(frames), TRUE)>> ELSE <<>>)
         \o loopback_frames(Tail(frames))

\* An inject_received that clears the loopback flag as a broadcast does.
injected_frames_cleared(frames) == [i \in 1..Len(frames) |-> Tagged(frames[i], FALSE)]

\* The generator inject_received hands to _receive: loopback=f.loopback.
injected_frames(frames) == [i \in 1..Len(frames) |-> Tagged(frames[i], frames[i].loopback)]

\* The orders in which "for p in self._peers" may visit the other peers.
Orders(S) ==
    { o \in [1..Cardinality(S) -> S] :
        \A i, j \in 1..Cardinality(S) : o[i] = o[j] => i = j }

\* for p in self._peers: if p is not self: p._receive(...)
RECURSIVE broadcast_calls(_, _)
broadcast_calls(order, frames) ==
    IF order = <<>> THEN <<>>
    ELSE _receive(Head(order), broadcast_frames(frames))
         \o broadcast_calls(Tail(order), frames)

\* assert len(frames) > 0
nonempty_batch(frames) == Len(frames) > 0
\* The payload assertion left out.
nonempty_payloads_unchecked(frames) == TRUE

\* assert min(map(lambda x: len(x.data), frames)) >= 1
nonempty_payloads(frames) == \A i \in 1..Len(frames) : Len(frames[i].data) >= 1
\* The identifier assertion left out.
uniform_identifier_unchecked(frames) == TRUE

\* assert len(set(map(lambda x: x.identifier, frames))) == 1
uniform_identifier(frames) ==
    Cardinality({ frames[i].identifier : i \in 1..Len(frames) }) = 1

\* Padding with the promiscuous filter instead of the dead one.
RECURSIVE padded_promiscuous(_, _)
padded_promiscuous(configuration, n) ==
    IF Len(configuration) < n
    THEN padded_promiscuous(Append(configuration, new_promiscuous), n)
    ELSE configuration

\* while len(configuration) < len(self._acceptance_filters): configuration.append(dead)
RECURSIVE padded(_, _)
padded(configuration, n) ==
    IF Len(configuration) < n
    THEN padded(Append(configuration, _make_dead_filter), n)
    ELSE configuration

\* The length assertion left out.
configuration_fits_unchecked(local, n) == TRUE

\* assert len(configuration) == len(self._acceptance_filters)
configuration_fits(local, n) == Len(local) = n

\* What the caller's sequence holds once the call has padded its own list:
\* configuration = list(configuration) copies, so the argument is untouched.
argument_after_padding(configuration, n) == configuration

\* A start that also refuses an adapter that has been started already.
start_is_closed_or_started(self) == closed[self] \/ rx_handler[self] # DefaultHandler
\* A send_until that also refuses an adapter that has not been started.
send_is_closed_or_created(self) == closed[self] \/ rx_handler[self] = DefaultHandler
\* A send_until that forgets the closed test.
send_never_closed(self) == FALSE

\* The "if self._closed: raise ResourceClosedError" test of each method.
start_is_closed(self) == closed[self]
configure_is_closed(self) == closed[self]
send_is_closed(self) == closed[self]
close_is_closed(self) == closed[self]

\* A fault that stays armed after it has been raised.
fault_stays_armed(self) == raise_on_send_once[self]

\* A close that forgets to leave the peer set.
peers_after_close_kept(self) == peers

\* self._peers.remove(self)
peers_after_close(self) == peers \ {self}

\* if self._raise_on_send_once: an armed exception is truthy, None is not.
fault_pending(self) == raise_on_send_once[self] # None
\* self._raise_on_send_once, ex = None, self._raise_on_send_once
fault_after_raise(self) == None

\* ---------------------------------------------------------------- actions
Call(op, self) == [NoCall EXCEPT !.op = op, !.self = self]

\* MockMedia(peers, mtu, number_of_acceptance_filters)
Construct(self, m, n) ==
    /\ self \notin constructed
    /\ constructed' = constructed \cup {self}
    /\ peers' = peers \cup {self}
    /\ mtu' = [mtu EXCEPT ![self] = m]
    /\ rx_handler' = [rx_handler EXCEPT ![self] = DefaultHandler]
    /\ acceptance_filters' =
           [acceptance_filters EXCEPT ![self] = [i \in 1..n |-> _make_dead_filter]]
    /\ automatic_retransmission_enabled' =
           [automatic_retransmission_enabled EXCEPT ![self] = FALSE]
    /\ closed' = [closed EXCEPT ![self] = FALSE]
    /\ raise_on_send_once' = [raise_on_send_once EXCEPT ![self] = None]
    /\ last' = [Call("__init__", self) EXCEPT !.number_of_acceptance_filters = n]
    /\ calls' = <<>>
    /\ caller_configuration' = <<>>

start(self, handler, no_automatic_retransmission) ==
    /\ self \in constructed
    /\ calls' = <<>>
    /\ caller_configuration' = <<>>
    /\ UNCHANGED <<constructed, peers, mtu, acceptance_filters, closed, raise_on_send_once>>
    /\ LET call == [Call("start", self) EXCEPT
                        !.handler = handler,
                        !.no_automatic_retransmission = no_automatic_retransmission]
       IN  IF start_is_closed(self)
           THEN /\ last' = [call EXCEPT !.outcome = ResourceClosedError]
                /\ UNCHANGED <<rx_handler, automatic_retransmission_enabled>>
           ELSE /\ rx_handler' = [rx_handler EXCEPT ![self] = handler]
                /\ automatic_retransmission_enabled' =
                       [automatic_retransmission_enabled EXCEPT
                            ![self] = ~no_automatic_retransmission]
                /\ last' = call

configure_acceptance_filters(self, configuration) ==
    /\ self \in constructed
    /\ calls' = <<>>
    /\ UNCHANGED <<constructed, peers, mtu, rx_handler,
                   automatic_retransmission_enabled, closed, raise_on_send_once>>
    /\ LET call == [Call("configure_acceptance_filters", self) EXCEPT
                        !.configuration = configuration]
           n == Len(acceptance_filters[self])
           local == padded(configuration, n)
       IN  IF configure_is_closed(self)
           THEN /\ last' = [call EXCEPT !.outcome = ResourceClosedError]
                /\ caller_configuration' = configuration
                /\ UNCHANGED acceptance_filters
           ELSE IF ~configuration_fits(local, n)
           THEN /\ last' = [call EXCEPT !.outcome = AssertionError]
                /\ caller_configuration' = argument_after_padding(configuration, n)
                /\ UNCHANGED acceptance_filters
           ELSE /\ last' = call
                /\ caller_configuration' = argument_after_padding(configuration, n)
                /\ acceptance_filters' = [acceptance_filters EXCEPT ![self] = local]

send_until(self, frames) ==
    /\ self \in constructed
    /\ caller_configuration' = <<>>
    /\ UNCHANGED <<constructed, peers, mtu, rx_handler, acceptance_filters,
                   automatic_retransmission_enabled, closed>>
    /\ LET call == [Call("send_until", self) EXCEPT !.frames = frames]
       IN  IF send_is_closed(self)
           THEN /\ last' = [call EXCEPT !.outcome = ResourceClosedError]
                /\ calls' = <<>>
                /\ UNCHANGED raise_on_send_once
           ELSE IF fault_pending(self)
           THEN /\ last' = [call EXCEPT !.outcome = raise_on_send_once[self]]
                /\ raise_on_send_once' =
                       [raise_on_send_once EXCEPT ![self] = fault_after_raise(self)]
                /\ calls' = <<>>
           ELSE IF ~(/\ nonempty_batch(frames)
                     /\ nonempty_payloads(frames)
                     /\ uniform_identifier(frames))
           THEN /\ last' = [call EXCEPT !.outcome = AssertionError]
                /\ calls' = <<>>
                /\ UNCHANGED raise_on_send_once
           ELSE /\ \E order \in Orders(peers \ {self}) :
                       calls' = broadcast_calls(order, frames)
                                \o _receive(self, loopback_frames(frames))
                /\ last' = [call EXCEPT !.returned = Len(frames)]
                /\ UNCHANGED raise_on_send_once

close(self) ==
    /\ self \in constructed
    /\ calls' = <<>>
    /\ caller_configuration' = <<>>
    /\ UNCHANGED <<constructed, mtu, rx_handler, acceptance_filters,
                   automatic_retransmission_enabled, raise_on_send_once>>
    /\ IF close_is_closed(self)
       THEN /\ last' = [Call("close", self) EXCEPT !.outcome = ResourceClosedError]
            /\ UNCHANGED <<closed, peers>>
       ELSE /\ closed' = [closed EXCEPT ![self] = TRUE]
            /\ peers' = peers_after_close(self)
            /\ last' = Call("close", self)

set_raise_on_send_once(self, ex) ==
    /\ self \in constructed
    /\ raise_on_send_once' = [raise_on_send_once EXCEPT ![self] = ex]
    /\ last' = [Call("raise_on_send_once", self) EXCEPT !.ex = ex]
    /\ calls' = <<>>
    /\ caller_configuration' = <<>>
    /\ UNCHANGED <<constructed, peers, mtu, rx_handler, acceptance_filters,
                   automatic_retransmission_enabled, closed>>

inject_received(self, frames) ==
    /\ self \in constructed
    /\ calls' = _receive(self, injected_frames(frames))
    /\ last' = [Call("inject_received", self) EXCEPT !.frames = frames]
    /\ caller_configuration' = <<>>
    /\ UNCHANGED <<constructed, peers, fields>>

\* ---------------------------------------------------------- specification
\* No send_until is in progress.
NoSend == [stage |-> "idle", self |-> None, frames |-> <<>>, remaining |-> {}, used |-> 0]
\* make_driver has not been called.
NoDriver == [device_name |-> <<>>, kwargs |-> <<>>, backend |-> None]

Init ==
    /\ constructed = {}
    /\ peers = {}
    /\ mtu = [a \in Adapters |-> 0]
    /\ rx_handler = [a \in Adapters |-> None]
    /\ acceptance_filters = [a \in Adapters |-> <<>>]
    /\ automatic_retransmission_enabled = [a \in Adapters |-> FALSE]
    /\ closed = [a \in Adapters |-> FALSE]
    /\ raise_on_send_once = [a \in Adapters |-> None]
    /\ caller_configuration = <<>>
    /\ last = NoCall
    /\ calls = <<>>
    /\ collected = [h \in Handlers |-> <<>>]
    /\ sending = NoSend
    /\ driver = NoDriver

\* The callbacks are opaque: they neither collect frames nor call back into
\* the bus, and make_driver is not called.
Opaque == UNCHANGED <<collected, sending, driver>>

\* One call of any method on adapter self, its arguments drawn from the given sets.
Step(self, sizes, handlers, flags, configs, frames) ==
    \/ \E m \in MTUs, n \in sizes : Construct(self, m, n) /\ Opaque
    \/ \E h \in handlers, nar \in flags : start(self, h, nar) /\ Opaque
    \/ \E c \in SeqsUpTo(configs, MaxConfigs) :
           configure_acceptance_filters(self, c) /\ Opaque
    \/ \E b \in SeqsUpTo(frames, MaxBatch) : send_until(self, b) /\ Opaque
    \/ close(self) /\ Opaque
    \/ \E ex \in Exceptions : set_raise_on_send_once(self, ex) /\ Opaque
    \/ \E b \in SeqsUpTo(frames, MaxBatch) : inject_received(self, b) /\ Opaque

Next ==
    \E self \in Adapters :
        Step(self, BusSizes, BusHandlers, BusFlags, BusFilterConfigs, BusFrames)

Spec == Init /\ [][Next]_vars

AdapterNext ==
    Step("me", AdapterSizes, Handlers, BOOLEAN, AdapterFilterConfigs, AdapterFrames)

SpecAdapter == Init /\ [][AdapterNext]_vars

\* ------------------------------------------------- vocabulary of the claims
\* The lifecycle state the specification speaks of, read off the fields.
Created(a) == a \in constructed /\ ~closed[a] /\ rx_handler[a] = DefaultHandler
Started(a) == a \in constructed /\ ~closed[a] /\ rx_handler[a] # DefaultHandler
Closed(a) == a \in constructed /\ closed[a]

\* The step just taken was a call of method op on adapter a.
Called(op, a) == last'.op = op /\ last'.self = a
\* The state follows a call of method op on adapter a.
After(op, a) == last.op = op /\ last.self = a

\* The set bits of a non-negative identifier or mask.
Bits(x) == { i \in 0..(FormatBits(EXTENDED) - 1) : (x \div (2 ^ i)) % 2 = 1 }

\* The acceptance rule of the specification, slot by slot, bit by bit.
MaskRule(frame, f) ==
    /\ \A i \in Bits(f.mask) : (i \in Bits(frame.identifier)) <=> (i \in Bits(f.identifier))
    /\ (f.format = None \/ frame.format = f.format)
Accepted(bank, frame) == \E i \in DOMAIN bank : MaskRule(frame, bank[i])

\* The dead filter as the specification words it.
DeadFilter == [identifier |-> 0, mask |-> 2047, format |-> BASE]
\* Every slot of the adapter's bank still holds the filter __init__ put there.
AllDead(a) ==
    \A i \in DOMAIN acceptance_filters[a] : acceptance_filters[a][i] = _make_dead_filter

\* Frames the acceptance rule is probed with in every state.
ProbeFrames ==
    { DataFrame(id, <<1>>, fmt, FALSE) :
        id \in {0, 1, 123, 251, 2047, 2048, 2 ^ 29 - 1}, fmt \in FrameFormats }

\* The callback invocations the last call made on adapter p, in order.
DeliveredTo(p) == SelectSeq(calls, LAMBDA c : c.to = p)

\* The frames of a batch that pass a bank, re-tagged, in batch order.
Passing(bank, frames, lb) ==
    LET kept == SelectSeq(frames, LAMBDA f : Accepted(bank, f))
    IN  [i \in 1..Len(kept) |->
            [identifier |-> kept[i].identifier, data |-> kept[i].data,
             format |-> kept[i].format, loopback |-> lb]]

ValidBatch(frames) ==
    /\ Len(frames) > 0
    /\ \A i \in 1..Len(frames) : Len(frames[i].data) >= 1
    /\ \A i, j \in 1..Len(frames) : frames[i].identifier = frames[j].identifier

\* ------------------------------------------------------------------ claims
\* C1: once close() has succeeded on an adapter, every later send_until,
\* configure_acceptance_filters, start and close on it raises
\* ResourceClosedError whatever the argument, invokes no callback on any
\* adapter and leaves every filter bank and the peer set as they were.
C1_ClosedRejectsEverything ==
    [][\A a \in Adapters :
          ( /\ Closed(a)
            /\ last'.self = a
            /\ last'.op \in {"send_until", "configure_acceptance_filters", "start", "close"} )
          => /\ last'.outcome = ResourceClosedError
             /\ calls' = <<>>
             /\ acceptance_filters' = acceptance_filters
             /\ peers' = peers]_vars

\* A closed adapter has just refused a non-empty batch while the other adapter,
\* its bank promiscuous, is still on the bus.
C1_Witness ==
    \E a \in Adapters, p \in peers :
        /\ Closed(a) /\ After("send_until", a)
        /\ last.outcome = ResourceClosedError
        /\ ValidBatch(last.frames)
        /\ Accepted(acceptance_filters[p], last.frames[1])

C3_StartOnlyOnce ==
    [][\A a \in Adapters :
          ( Called("start", a) /\ (Closed(a) \/ Started(a)) )
          => /\ last'.outcome = ResourceClosedError
             /\ rx_handler'[a] = rx_handler[a]
             /\ automatic_retransmission_enabled'[a]
                    = automatic_retransmission_enabled[a]]_vars

\* C3 (amended): the lifecycle never moves backward (a closed adapter stays
\* closed, a started adapter never returns to Created, and close succeeds only
\* on an adapter that is not closed yet); start raises ResourceClosedError only
\* on a closed adapter, and that failed start leaves the callback and the
\* automatic-retransmission flag unchanged; start on an adapter that is not
\* closed, started already or not, succeeds: it registers the given callback
\* and sets the flag to "not no_automatic_retransmission".
C3_StartUnlessClosed ==
    [][\A a \in constructed :
          /\ Closed(a) => Closed(a)'
          /\ Started(a) => ~Created(a)'
          /\ (Called("close", a) /\ last'.outcome = Ok) => (~closed[a] /\ closed'[a])
          /\ Called("start", a) =>
               IF closed[a]
               THEN /\ last'.outcome = ResourceClosedError
                    /\ rx_handler'[a] = rx_handler[a]
                    /\ automatic_retransmission_enabled'[a]
                           = automatic_retransmission_enabled[a]
               ELSE /\ last'.outcome = Ok
                    /\ rx_handler'[a] = last'.handler
                    /\ automatic_retransmission_enabled'[a]
                           = ~last'.no_automatic_retransmission]_vars

\* A closed adapter has just refused a start that offered another callback and
\* the opposite flag: both are still what the earlier start registered.
C3_Witness ==
    \E a \in Adapters :
        /\ Closed(a) /\ After("start", a)
        /\ last.outcome = ResourceClosedError
        /\ rx_handler[a] \in Handlers /\ rx_handler[a] # last.handler
        /\ automatic_retransmission_enabled[a] = last.no_automatic_retransmission

\* C4 (as claimed): a bank holding only dead filters accepts no frame, of any
\* identifier (0 included) and either format, so an adapter whose bank was
\* never configured has no callback invoked.
C4_DeadBankAcceptsNothing ==
    \A a \in constructed :
        AllDead(a) =>
            /\ \A f \in ProbeFrames : ~_test_acceptance(acceptance_filters[a], f)
            /\ DeliveredTo(a) = <<>>

\* C4 (amended): a bank of one or more dead filters accepts exactly the BASE
\* frames whose identifier has its 11 low bits clear (identifier 0 among the
\* valid BASE identifiers) and no other frame, in particular no EXTENDED
\* frame; an empty bank accepts nothing.  Until the bank is configured a
\* callback is invoked for such frames only.
C4_DeadBankAcceptsBaseZero ==
    \A a \in constructed :
        AllDead(a) =>
            /\ \A f \in ProbeFrames :
                 _test_acceptance(acceptance_filters[a], f)
                    <=> /\ acceptance_filters[a] # <<>>
                        /\ f.format = BASE
                        /\ f.identifier % 2048 = 0
            /\ \A i \in DOMAIN calls :
                 calls[i].to = a =>
                    /\ acceptance_filters[a] # <<>>
                    /\ \A j \in DOMAIN calls[i].frames :
                         /\ calls[i].frames[j].format = BASE
                         /\ calls[i].frames[j].identifier % 2048 = 0

\* An adapter whose bank still holds only dead filters has just had its
\* callback invoked with the looped-back BASE frame of identifier 0.
C4_Witness ==
    \E a \in Adapters :
        /\ AllDead(a) /\ After("send_until", a)
        /\ acceptance_filters[a] # <<>>
        /\ DeliveredTo(a) # <<>>
        /\ DeliveredTo(a)[1].frames[1].identifier = 0

\* C5: a frame is accepted by a bank iff some slot f of the bank has
\* (frame.identifier & f.mask) = (f.identifier & f.mask) and f.format is None
\* or equal to the frame's format; a bank with a promiscuous slot accepts
\* every frame; and what inject_received hands to the callback is exactly the
\* injected frames that some slot accepts, in order.
C5_AcceptedIffSomeSlotMatches ==
    \A a \in constructed :
        /\ \A f \in ProbeFrames :
             /\ _test_acceptance(acceptance_filters[a], f)
                    <=> Accepted(acceptance_filters[a], f)
             /\ (\E i \in DOMAIN acceptance_filters[a] :
                    /\ acceptance_filters[a][i].mask = 0
                    /\ acceptance_filters[a][i].format = None)
                => _test_acceptance(acceptance_filters[a], f)
        /\ After("inject_received", a) =>
             LET kept == SelectSeq(last.frames,
                                   LAMBDA f : Accepted(acceptance_filters[a], f))
             IN  IF kept = <<>>
                 THEN calls = <<>>
                 ELSE Len(calls) = 1 /\ calls[1].to = a /\ calls[1].frames = kept

\* A bank whose first slot rejects the frame and whose second, promiscuous
\* slot accepts it: the injected frame has reached the callback.
C5_Witness ==
    \E a \in Adapters :
        /\ After("inject_received", a)
        /\ Len(acceptance_filters[a]) = 2
        /\ acceptance_filters[a][2] = new_promiscuous
        /\ calls # <<>>
        /\ ~MaskRule(calls[1].frames[1], acceptance_filters[a][1])

\* C6: after a successful send_until by adapter s, every other adapter p of
\* the peer set has had its callback invoked with exactly the frames of the
\* batch that pass p's bank, in batch order, each once, each tagged
\* loopback=false whatever flag the transmitted frame carried; when no frame
\* passes, p's callback is not invoked.
C6_PeersReceiveAcceptedFrames ==
    \A s \in Adapters :
        (After("send_until", s) /\ last.outcome = Ok) =>
            \A p \in peers \ {s} :
                LET want == Passing(acceptance_filters[p], last.frames, FALSE)
                IN  IF want = <<>>
                    THEN DeliveredTo(p) = <<>>
                    ELSE /\ Len(DeliveredTo(p)) = 1
                         /\ DeliveredTo(p)[1].frames = want
                         /\ DeliveredTo(p)[1].handler = rx_handler[p]

\* A peer has received one frame of a two-frame batch, a frame sent with
\* loopback=true, while its bank dropped the other frame.
C6_Witness ==
    \E s \in Adapters : \E p \in peers \ {s} :
        /\ After("send_until", s) /\ last.outcome = Ok
        /\ Len(last.frames) = 2
        /\ Len(DeliveredTo(p)) = 1
        /\ Len(DeliveredTo(p)[1].frames) = 1
        /\ \E i \in 1..2 :
              /\ last.frames[i].loopback
              /\ last.frames[i].data = DeliveredTo(p)[1].frames[1].data

\* C7: after a successful send_until the sender's own callback has been
\* invoked with exactly the frames of the batch whose loopback flag was true
\* and that pass the sender's own bank, each tagged loopback=true; a frame
\* sent with loopback=false never comes back to the sender.
C7_LoopbackIffRequestedAndAccepted ==
    \A s \in Adapters :
        (After("send_until", s) /\ last.outcome = Ok) =>
            LET asked == SelectSeq(last.frames, LAMBDA f : f.loopback)
                want == Passing(acceptance_filters[s], asked, TRUE)
            IN  IF want = <<>>
                THEN DeliveredTo(s) = <<>>
                ELSE /\ Len(DeliveredTo(s)) = 1
                     /\ DeliveredTo(s)[1].frames = want

\* The sender, its bank promiscuous, has got back the one frame of a
\* two-frame batch that asked for loopback, and not the other.
C7_Witness ==
    \E s \in Adapters :
        /\ After("send_until", s) /\ last.outcome = Ok
        /\ Len(last.frames) = 2
        /\ \E i \in 1..2 : ~last.frames[i].loopback
        /\ acceptance_filters[s] = <<new_promiscuous>>
        /\ Len(DeliveredTo(s)) = 1
        /\ Len(DeliveredTo(s)[1].frames) = 1

\* C8: send_until on an adapter that is not closed and has no fault pending,
\* given a batch with more than one distinct identifier, fails with an
\* assertion error and invokes no callback: nothing reaches a peer or comes
\* back to the sender.
C8_NonuniformBatchRejected ==
    [][\A a \in constructed :
          ( /\ Called("send_until", a)
            /\ ~closed[a]
            /\ raise_on_send_once[a] = None
            /\ \E i, j \in DOMAIN last'.frames :
                  last'.frames[i].identifier # last'.frames[j].identifier )
          => /\ last'.outcome = AssertionError
             /\ calls' = <<>>]_vars

\* A started adapter has just had a batch of two identifiers refused while a
\* started peer with a promiscuous bank was on the bus.
C8_Witness ==
    \E a \in Adapters : \E p \in peers \ {a} :
        /\ Started(a) /\ Started(p)
        /\ After("send_until", a)
        /\ last.outcome = AssertionError
        /\ Len(last.frames) = 2
        /\ last.frames[1].identifier # last.frames[2].identifier
        /\ \A i \in 1..2 : Len(last.frames[i].data) >= 1
        /\ acceptance_filters[p] = <<new_promiscuous>>
        /\ acceptance_filters[a] = <<new_promiscuous>>

\* C9: raise_on_send_once(ex) arms the fault; the next send_until on the
\* adapter, not closed, raises ex whatever the batch, invokes no callback,
\* leaves the peer set alone and disarms the fault; with no fault armed a
\* valid batch is sent successfully, and an exception of the fault kind is
\* raised only by a call that found it armed.
C9_FaultIsOneShot ==
    [][\A a \in constructed :
          /\ Called("raise_on_send_once", a) => raise_on_send_once'[a] = last'.ex
          /\ (Called("send_until", a) /\ ~closed[a]) =>
               IF raise_on_send_once[a] # None
               THEN /\ last'.outcome = raise_on_send_once[a]
                    /\ calls' = <<>>
                    /\ peers' = peers
                    /\ raise_on_send_once'[a] = None
               ELSE /\ last'.outcome \notin Exceptions
                    /\ ValidBatch(last'.frames) => last'.outcome = Ok
                    /\ raise_on_send_once'[a] = None]_vars

\* The armed adapter has just raised the fault on a valid batch that a
\* promiscuous peer would have received, and the fault is disarmed.
C9_Witness ==
    \E a \in Adapters : \E p \in peers \ {a} :
        /\ After("send_until", a) /\ ~closed[a]
        /\ last.outcome \in Exceptions
        /\ raise_on_send_once[a] = None
        /\ ValidBatch(last.frames)
        /\ acceptance_filters[p] = <<new_promiscuous>>
        /\ calls = <<>>

\* C10: configure_acceptance_filters with k configurations on an adapter that
\* is not closed and has N >= k slots succeeds and replaces the whole bank:
\* slots 1..k hold the supplied configurations in order, slots k+1..N hold the
\* dead filter, the bank keeps its length, and the caller's sequence is what
\* it was before the call.
C10_ConfigureReplacesWholeBank ==
    [][\A a \in constructed :
          ( /\ Called("configure_acceptance_filters", a)
            /\ ~closed[a]
            /\ Len(last'.configuration) <= Len(acceptance_filters[a]) )
          => LET k == Len(last'.configuration)
                 N == Len(acceptance_filters[a])
             IN  /\ last'.outcome = Ok
                 /\ Len(acceptance_filters'[a]) = N
                 /\ \A i \in 1..k : acceptance_filters'[a][i] = last'.configuration[i]
                 /\ \A i \in (k + 1)..N : acceptance_filters'[a][i] = DeadFilter
                 /\ caller_configuration' = last'.configuration]_vars

\* A two-slot bank has just been given one configuration: the second slot is
\* dead again and the caller still holds a one-element sequence.
C10_Witness ==
    \E a \in Adapters :
        /\ After("configure_acceptance_filters", a) /\ last.outcome = Ok
        /\ Len(last.configuration) = 1
        /\ acceptance_filters[a] = <<last.configuration[1], DeadFilter>>
        /\ caller_configuration = last.configuration

\* ------------------------------------------------------------------- C11
\* @property number_of_acceptance_filters: len(self._acceptance_filters)
number_of_acceptance_filters(self) == Len(acceptance_filters[self])

\* C11: the length of the filter bank, and so number_of_acceptance_filters,
\* is the value given at construction and no operation changes it; a
\* configure_acceptance_filters call with more configurations than slots is
\* rejected as a caller error (AssertionError on an adapter that is not
\* closed) and leaves the bank as it was.
C11_BankLengthNeverChanges ==
    [][\A a \in constructed' :
          /\ Called("__init__", a) =>
               number_of_acceptance_filters(a)' = last'.number_of_acceptance_filters
          /\ a \in constructed =>
               number_of_acceptance_filters(a)' = number_of_acceptance_filters(a)
          /\ ( /\ a \in constructed
               /\ Called("configure_acceptance_filters", a)
               /\ Len(last'.configuration) > number_of_acceptance_filters(a) )
             => /\ last'.outcome = IF closed[a] THEN ResourceClosedError ELSE AssertionError
                /\ acceptance_filters'[a] = acceptance_filters[a]]_vars

\* A one-slot bank that had been made promiscuous has just refused two
\* configurations and still holds the promiscuous slot.
C11_Witness ==
    \E a \in Adapters :
        /\ After("configure_acceptance_filters", a)
        /\ last.outcome = AssertionError
        /\ Len(last.configuration) = 2
        /\ acceptance_filters[a] = <<new_promiscuous>>
        /\ number_of_acceptance_filters(a) = 1

\* ------------------------------------------------------------------- C12
\* C12: the shared peer set is exactly the set of adapters constructed on it
\* and not closed. Construction adds the new adapter, the first close of an
\* adapter removes that adapter and nothing else, and no other call (start,
\* send_until, configure_acceptance_filters, raise_on_send_once,
\* inject_received, a close that fails) changes the membership.
C12_PeersAreTheOpenAdapters ==
    [][/\ peers' = { a \in constructed' : ~closed'[a] }
       /\ \A a \in Adapters :
            /\ Called("__init__", a) => a \notin peers /\ peers' = peers \cup {a}
            /\ (Called("close", a) /\ ~closed[a]) => a \in peers /\ peers' = peers \ {a}
            /\ (Called("close", a) /\ closed[a]) =>
                 last'.outcome = ResourceClosedError /\ peers' = peers
       /\ last'.op \notin {"__init__", "close"} => peers' = peers]_vars

\* One adapter has been closed and its second close has just failed, while
\* the other adapter is still the one member of the peer set.
C12_Witness ==
    \E a \in Adapters : \E p \in Adapters \ {a} :
        /\ After("close", a) /\ last.outcome = ResourceClosedError
        /\ closed[a] /\ p \in constructed /\ ~closed[p]
        /\ peers = {p}

\* ------------------------------------------------------------------- C13
\* The broadcast of send_until taken one iteration at a time, with reception
\* callbacks that call back into the bus while the loop is running. While a
\* send_until is in progress only its own steps and its callbacks run; a
\* nested call shows in last like any other call, and the send_until call
\* is written back to last when it ends.

\* A reception callback that may close an adapter or construct one.
ReentrantHandler == "reentrant_callback"
ReentrantFrames ==
    { DataFrame(123, <<100>>, EXTENDED, FALSE), DataFrame(123, <<101>>, EXTENDED, TRUE) }
ReentrantBatches == { <<f>> : f \in ReentrantFrames }
ReentrantConfigs == { <<new_promiscuous>> }

\* The call has not returned yet.
Pending == "pending"
\* What the set iterator raises when the set it walks has changed its size.
SetChangedSize == "RuntimeError: Set changed size during iteration"

Idle == sending.stage = "idle"
sent_call == [Call("send_until", sending.self) EXCEPT !.frames = sending.frames]

\* send_until up to the point where "for p in self._peers" creates its iterator.
send_begin(self, frames) ==
    /\ Idle
    /\ self \in constructed
    /\ UNCHANGED <<collected, driver>>
    /\ IF \/ send_is_closed(self)
          \/ fault_pending(self)
          \/ ~(nonempty_batch(frames) /\ nonempty_payloads(frames) /\ uniform_identifier(frames))
       THEN send_until(self, frames) /\ UNCHANGED sending
       ELSE /\ sending' = [stage |-> "broadcast", self |-> self, frames |-> frames,
                           remaining |-> peers, used |-> Cardinality(peers)]
            /\ last' = [Call("send_until", self) EXCEPT !.frames = frames, !.outcome = Pending]
            /\ calls' = <<>>
            /\ caller_configuration' = <<>>
            /\ UNCHANGED <<constructed, peers, fields>>

\* The iterator is asked for the next peer after the set has changed size.
broadcast_raise ==
    /\ sending.stage = "broadcast"
    /\ Cardinality(peers) # sending.used
    /\ sending' = NoSend
    /\ last' = [sent_call EXCEPT !.outcome = SetChangedSize]
    /\ calls' = <<>>
    /\ UNCHANGED <<constructed, peers, fields, caller_configuration, collected, driver>>

\* The iterator is exhausted: the loop ends and the loopback delivery is next.
broadcast_stop ==
    /\ sending.stage = "broadcast"
    /\ Cardinality(peers) = sending.used
    /\ sending.remaining = {}
    /\ sending' = [sending EXCEPT !.stage = "loopback"]
    /\ UNCHANGED <<constructed, peers, fields, caller_configuration, last, calls,
                   collected, driver>>

\* One pass of the loop body: if p is not self: p._receive(...).
broadcast_visit(p) ==
    /\ sending.stage = "broadcast"
    /\ Cardinality(peers) = sending.used
    /\ p \in sending.remaining
    /\ LET made == IF p = sending.self THEN <<>>
                   ELSE _receive(p, broadcast_frames(sending.frames))
       IN  /\ calls' = calls \o made
           /\ sending' = [sending EXCEPT
                             !.remaining = @ \ {p},
                             !.stage = IF made # <<>> /\ rx_handler[p] = ReentrantHandler
                                       THEN "callback" ELSE "broadcast"]
    /\ UNCHANGED <<constructed, peers, fields, caller_configuration, last, collected, driver>>

\* self._receive(... for f in frames if f.loopback), after the loop.
loopback_deliver ==
    /\ sending.stage = "loopback"
    /\ LET made == _receive(sending.self, loopback_frames(sending.frames))
       IN  /\ calls' = calls \o made
           /\ IF made # <<>> /\ rx_handler[sending.self] = ReentrantHandler
              THEN /\ sending' = [sending EXCEPT !.stage = "loopback_callback"]
                   /\ UNCHANGED last
              ELSE /\ sending' = NoSend
                   /\ last' = [sent_call EXCEPT !.returned = Len(sending.frames)]
    /\ UNCHANGED <<constructed, peers, fields, caller_configuration, collected, driver>>

InCallback == sending.stage \in {"callback", "loopback_callback"}
\* Where send_until goes on when the callback returns.
resumed == IF sending.stage = "callback" THEN [sending EXCEPT !.stage = "broadcast"]
           ELSE [sending EXCEPT !.stage = "returning"]

\* The callback closes an adapter that is open, then returns.
callback_close(x) ==
    /\ InCallback
    /\ x \in peers
    /\ close(x)
    /\ sending' = resumed
    /\ UNCHANGED <<collected, driver>>

\* The callback constructs another adapter on the same bus, then returns.
callback_construct(x) ==
    /\ InCallback
    /\ \E m \in MTUs, n \in BusSizes : Construct(x, m, n)
    /\ sending' = resumed
    /\ UNCHANGED <<collected, driver>>

\* The callback returns without touching the bus.
callback_return ==
    /\ InCallback
    /\ sending' = resumed
    /\ UNCHANGED <<constructed, peers, fields, caller_configuration, last, calls,
                   collected, driver>>

\* return len(frames)
send_return ==
    /\ sending.stage = "returning"
    /\ sending' = NoSend
    /\ last' = [sent_call EXCEPT !.returned = Len(sending.frames)]
    /\ calls' = <<>>
    /\ UNCHANGED <<constructed, peers, fields, caller_configuration, collected, driver>>

ReentrantNext ==
    \/ \E a \in Adapters :
          \/ Idle /\ \E m \in MTUs, n \in BusSizes : Construct(a, m, n) /\ Opaque
          \/ Idle /\ start(a, ReentrantHandler, FALSE) /\ Opaque
          \/ Idle /\ \E c \in ReentrantConfigs : configure_acceptance_filters(a, c) /\ Opaque
          \/ Idle /\ close(a) /\ Opaque
          \/ \E b \in ReentrantBatches : send_begin(a, b)
          \/ broadcast_visit(a)
          \/ callback_close(a)
          \/ callback_construct(a)
    \/ broadcast_raise
    \/ broadcast_stop
    \/ loopback_deliver
    \/ callback_return
    \/ send_return

SpecReentrant == Init /\ [][ReentrantNext]_vars

\* C13: a change of the peer set made while a send_until broadcast is under
\* way (an adapter closed or constructed by a reception callback that the
\* broadcast invoked) does not make the send_until fail, and the peer set is
\* still the set of constructed and not closed adapters.
C13_MembershipChangeIsAtomic ==
    /\ last.outcome # SetChangedSize
    /\ peers = { a \in constructed : ~closed[a] }

\* ------------------------------------------------------------------- C14
\* The adapters started with the give method of a FrameCollector each, as
\* the unit test does; the collectors keep what they are given until popped.
collector_of(a) == IF a = "me" THEN "me_collector" ELSE "pe_collector"
CollectorFrames ==
    { DataFrame(123, <<97>>, EXTENDED, FALSE), DataFrame(123, <<100>>, EXTENDED, TRUE) }
CollectorConfigs == { <<new_promiscuous>> }
IndexError == "IndexError"

\* FrameCollector.give: self._collected += frames
give(held, frames) == held \o frames

\* The collectors after the callbacks of one call have run, in call order.
RECURSIVE handed(_, _)
handed(held, cs) ==
    IF cs = <<>> THEN held
    ELSE handed(IF Head(cs).handler \in Handlers
                THEN [held EXCEPT ![Head(cs).handler] = give(@, Head(cs).frames)]
                ELSE held,
                Tail(cs))

\* send_until on adapters whose callbacks are FrameCollector.give.
send_and_collect(self, frames) ==
    /\ send_until(self, frames)
    /\ collected' = handed(collected, calls')
    /\ \A h \in Handlers : Len(collected'[h]) <= MaxCollected
    /\ UNCHANGED <<sending, driver>>

\* FrameCollector.pop: head, self._collected = self._collected[0], self._collected[1:]
pop(h) ==
    /\ IF collected[h] = <<>>
       THEN /\ last' = [Call("pop", h) EXCEPT !.outcome = IndexError]
            /\ UNCHANGED collected
       ELSE /\ last' = [Call("pop", h) EXCEPT !.popped = Head(collected[h])]
            /\ collected' = [collected EXCEPT ![h] = Tail(@)]
    /\ calls' = <<>>
    /\ caller_configuration' = <<>>
    /\ UNCHANGED <<constructed, peers, fields, sending, driver>>

CollectorNext ==
    \/ \E a \in Adapters :
          \/ \E m \in MTUs, n \in BusSizes : Construct(a, m, n) /\ Opaque
          \/ start(a, collector_of(a), FALSE) /\ Opaque
          \/ \E c \in CollectorConfigs : configure_acceptance_filters(a, c) /\ Opaque
          \/ \E b \in SeqsUpTo(CollectorFrames, MaxBatch) : send_and_collect(a, b)
    \/ \E h \in Handlers : pop(h)

SpecCollector == Init /\ [][CollectorNext]_vars

\* What adapter p's collector is given by a successful send of batch frames
\* by adapter s: nothing unless p is open and started with its collector,
\* otherwise the frames that pass p's bank, in batch order; for the sender
\* itself only those sent with loopback=true.
Collects(p, s, frames) ==
    IF p \notin peers \/ rx_handler[p] # collector_of(p) THEN <<>>
    ELSE IF p = s
    THEN Passing(acceptance_filters[p], SelectSeq(frames, LAMBDA f : f.loopback), TRUE)
    ELSE Passing(acceptance_filters[p], frames, FALSE)

\* C14: the frames of one send_until call reach each receiving peer in the
\* order they have in the batch, and behind everything an earlier call
\* delivered to that peer: every successful send appends, to each collector,
\* the frames its adapter accepts in batch order; pop hands out the oldest
\* frame held and keeps the rest in order; nothing else touches a collector.
C14_DeliveredInTransmissionOrder ==
    [][/\ \A s \in Adapters :
            Called("send_until", s) =>
                \A p \in Adapters :
                    collected'[collector_of(p)] =
                        collected[collector_of(p)]
                        \o (IF last'.outcome = Ok THEN Collects(p, s, last'.frames) ELSE <<>>)
       /\ \A h \in Handlers :
            (Called("pop", h) /\ collected[h] # <<>>) =>
                /\ last'.popped = Head(collected[h])
                /\ collected' = [collected EXCEPT ![h] = Tail(collected[h])]
       /\ last'.op \notin {"send_until", "pop"} => collected' = collected]_vars

\* A peer's collector was handed two different frames, one batch or two, and
\* has just popped the one transmitted first; the later one is still held.
C14_Witness ==
    \E p \in Adapters :
        /\ After("pop", collector_of(p)) /\ last.outcome = Ok
        /\ last.popped = DataFrame(123, <<97>>, EXTENDED, FALSE)
        /\ collected[collector_of(p)] = << DataFrame(123, <<100>>, EXTENDED, FALSE) >>

\* ------------------------------------------------------------------- C15
\* C15: a reception callback is never invoked with an empty batch. Whatever
\* the path (broadcast to a peer, loopback to the sender, inject_received),
\* every invocation carries at least one frame and only frames that the
\* receiving adapter's bank accepts; an adapter whose bank accepts none of
\* the frames offered to it is not called at all.
C15_NoEmptyBatchCallback ==
    /\ \A i \in DOMAIN calls :
          /\ calls[i].frames # <<>>
          /\ \A j \in DOMAIN calls[i].frames :
                Accepted(acceptance_filters[calls[i].to], calls[i].frames[j])
    /\ \A a \in constructed :
          ( /\ last.op \in {"send_until", "inject_received"}
            /\ \A j \in DOMAIN last.frames :
                  ~Accepted(acceptance_filters[a], last.frames[j]) )
          => DeliveredTo(a) = <<>>

\* Two frames have just been injected into an adapter whose bank accepts
\* neither, and no callback was invoked.
C15_Witness ==
    \E a \in constructed :
        /\ After("inject_received", a)
        /\ Len(last.frames) = 2
        /\ \A j \in 1..2 : ~Accepted(acceptance_filters[a], last.frames[j])
        /\ calls = <<>>

\* ------------------------------------------------------------------- C16
\* C16 as claimed: on every delivery path, inject_received included, a frame
\* handed to a callback carries loopback=true exactly when it is the
\* receiving adapter's own transmission coming back, and loopback=false
\* when it comes from anywhere else, whatever flag the original carried.
C16_ReceiverAssignsLoopbackEverywhere ==
    \A i \in DOMAIN calls : \A j \in DOMAIN calls[i].frames :
        calls[i].frames[j].loopback
            = (last.op = "send_until" /\ calls[i].to = last.self)

\* C16: in the deliveries of send_until the loopback flag is assigned by the
\* receiving side: true on the frames that come back to the sender, false
\* on the frames handed to another peer, whatever the flag of the original.
\* inject_received does not re-tag: the callback gets the injected frames
\* that pass the bank exactly as injected, loopback flag included.
C16_SendRetagsInjectKeepsFlag ==
    /\ last.op = "send_until" =>
          \A i \in DOMAIN calls : \A j \in DOMAIN calls[i].frames :
              calls[i].frames[j].loopback = (calls[i].to = last.self)
    /\ \A a \in constructed :
          After("inject_received", a) =>
              LET want == SelectSeq(last.frames,
                                    LAMBDA f : Accepted(acceptance_filters[a], f))
              IN  IF want = <<>> THEN calls = <<>>
                  ELSE /\ Len(calls) = 1
                       /\ calls[1].to = a
                       /\ calls[1].frames = want

\* An injected frame with loopback=true has just been handed to the callback
\* still marked loopback=true, together with one injected with loopback=false.
C16_Witness ==
    \E a \in constructed :
        /\ After("inject_received", a)
        /\ Len(calls) = 1
        /\ \E j \in DOMAIN calls[1].frames : calls[1].frames[j].loopback
        /\ \E j \in DOMAIN calls[1].frames : ~calls[1].frames[j].loopback

\* ------------------------------------------------------------------- C17
\* C17 as claimed: on a started adapter send_until checks the batch before
\* anything else, so a batch that is empty, holds an empty payload or mixes
\* identifiers is rejected as a contract violation even when a fault is
\* armed, and the fault stays armed.
C17_BatchCheckedBeforeFault ==
    [][\A a \in constructed :
          (Called("send_until", a) /\ Started(a) /\ ~ValidBatch(last'.frames))
          => /\ last'.outcome = AssertionError
             /\ raise_on_send_once'[a] = raise_on_send_once[a]
             /\ calls' = <<>>]_vars

\* C17: on a started adapter send_until looks at a pending injected fault
\* first: the fault is raised and disarmed whatever the batch is. Only with
\* no fault pending are the batch invariants enforced, and then before any
\* delivery: a violating batch is rejected with AssertionError and no
\* callback is invoked.
C17_FaultBeforeBatchCheck ==
    [][\A a \in constructed :
          (Called("send_until", a) /\ Started(a) /\ ~ValidBatch(last'.frames))
          => /\ calls' = <<>>
             /\ IF raise_on_send_once[a] # None
                THEN /\ last'.outcome = raise_on_send_once[a]
                     /\ raise_on_send_once'[a] = None
                ELSE /\ last'.outcome = AssertionError
                     /\ raise_on_send_once'[a] = None]_vars

\* A started adapter with a fault armed was handed an empty batch: the fault
\* was raised, not the contract violation, and is disarmed now.
C17_Witness ==
    \E a \in constructed :
        /\ After("send_until", a) /\ Started(a)
        /\ last.frames = <<>>
        /\ last.outcome \in Exceptions
        /\ raise_on_send_once[a] = None

\* ------------------------------------------------------------------- C18
\* C18: every frame a send_until call transmits has a payload of at least
\* one byte and at most the sending adapter's mtu: a batch holding a frame
\* with an empty payload or with a payload longer than the mtu is rejected
\* and none of its frames reaches any callback.
C18_PayloadWithinMtu ==
    \A a \in constructed :
        ( /\ After("send_until", a)
          /\ \E i \in DOMAIN last.frames :
                Len(last.frames[i].data) \notin 1..mtu[a] )
        => /\ last.outcome # Ok
           /\ calls = <<>>

\* ------------------------------------------------------------------- C19
\* make_driver. A device name is a sequence of one-character strings.
SLCAN == "SLCAN"
SocketCAN == "SocketCAN"
Backends == {SLCAN, SocketCAN}

Uppercase == <<"A", "B", "C", "D", "E", "F", "G", "H", "I", "J", "K", "L", "M",
               "N", "O", "P", "Q", "R", "S", "T", "U", "V", "W", "X", "Y", "Z">>
Lowercase == <<"a", "b", "c", "d", "e", "f", "g", "h", "i", "j", "k", "l", "m",
               "n", "o", "p", "q", "r", "s", "t", "u", "v", "w", "x", "y", "z">>

\* str.replace(old, new) for a one-character old.
RECURSIVE replace(_, _, _)
replace(s, old, new) ==
    IF s = <<>> THEN <<>>
    ELSE (IF Head(s) = old THEN new ELSE <<Head(s)>>) \o replace(Tail(s), old, new)

\* A lower() that leaves the string as it is.
lower_kept(s) == s

\* str.lower()
lower(s) ==
    [i \in 1..Len(s) |->
        IF \E k \in DOMAIN Uppercase : Uppercase[k] = s[i]
        THEN Lowercase[CHOOSE k \in DOMAIN Uppercase : Uppercase[k] = s[i]]
        ELSE s[i]]

\* str.startswith(prefix)
startswith(s, prefix) ==
    Len(s) >= Len(prefix) /\ SubSeq(s, 1, Len(prefix)) = prefix

\* device_name.replace('\\', '').replace('.', '').lower().startswith('com')
windows_com_port(device_name) ==
    startswith(lower(replace(replace(device_name, "\\", <<>>), ".", <<>>)),
               <<"c", "o", "m">>)

\* device_name.startswith('/dev/')
unix_tty(device_name) == startswith(device_name, <<"/", "d", "e", "v", "/">>)

\* The characters the COM-port test removes, folds or looks for.
DriverChars == {"c", "O", "m", "\\", "."}
\* Names from the docstring and names next to the two patterns.
KnownNames ==
    { <<"/", "d", "e", "v", "/", "t", "t", "y", "A", "C", "M", "0">>,
      <<"/", "d", "e", "v", "/">>,
      <<"/", "d", "e", "v">>,
      <<"d", "e", "v", "/", "t", "t", "y", "S", "0">>,
      <<"/", "D", "E", "V", "/", "t", "t", "y", "S", "0">>,
      <<"C", "O", "M", "9">>,
      <<"c", "o", "m", "3">>,
      <<"\\", "\\", ".", "\\", "C", "O", "M", "1", "0">>,
      <<"c", "a", "n", "0">>,
      <<"v", "c", "a", "n", "0">>,
      <<"s", "l", "c", "a", "n", "0">>,
      <<"x", "C", "O", "M", "1">>,
      <<" ", "C", "O", "M", "1">>,
      <<"c", "/", "o", "m">> }
DeviceNames == SeqsUpTo(DriverChars, MaxName) \cup KnownNames
\* **kwargs: the names of the keyword arguments handed through.
DriverKwargs == { <<>>, <<"bitrate">> }

\* make_driver(device_name, **kwargs): which class is instantiated, with what.
make_driver(device_name, kwargs) ==
    /\ driver' = [device_name |-> device_name,
                  kwargs |-> kwargs,
                  backend |-> IF windows_com_port(device_name) \/ unix_tty(device_name)
                              THEN SLCAN ELSE SocketCAN]
    /\ UNCHANGED <<constructed, peers, fields, caller_configuration, last, calls,
                   collected, sending>>

DriverNext == \E name \in DeviceNames, kw \in DriverKwargs : make_driver(name, kw)

SpecDriver == Init /\ [][DriverNext]_vars

\* The name without backslashes and dots begins with c, o, m in any case.
ComPortPattern(name) ==
    LET kept == SelectSeq(name, LAMBDA c : c \notin {"\\", "."})
    IN  /\ Len(kept) >= 3
        /\ kept[1] \in {"c", "C"} /\ kept[2] \in {"o", "O"} /\ kept[3] \in {"m", "M"}
\* The name begins with /dev/.
TtyPattern(name) ==
    /\ Len(name) >= 5
    /\ name[1] = "/" /\ name[2] = "d" /\ name[3] = "e" /\ name[4] = "v" /\ name[5] = "/"

\* C19: make_driver instantiates one backend per call and the device name
\* alone decides which: SLCAN when the name, backslashes and dots removed
\* and lower-cased, starts with 'com', or when the name starts with '/dev/';
\* SocketCAN for every other name. The device name and the keyword
\* arguments are handed to the backend as given.
C19_BackendChosenByDeviceName ==
    driver # NoDriver =>
        /\ driver.backend \in Backends
        /\ driver.backend = SLCAN
              <=> (ComPortPattern(driver.device_name) \/ TtyPattern(driver.device_name))
        /\ driver.backend = SocketCAN
              <=> ~(ComPortPattern(driver.device_name) \/ TtyPattern(driver.device_name))

\* make_driver was called with \\.\COM10 and chose SLCAN.
C19_Witness ==
    /\ driver.device_name = <<"\\", "\\", ".", "\\", "C", "O", "M", "1", "0">>
    /\ driver.kwargs = <<"bitrate">>
    /\ driver.backend = SLCAN

\* ------------------------------------------------------------------- C20
\* C20: once an adapter is closed, no later send_until call invokes its
\* reception callback: it is out of the peer set, so the broadcast of another
\* adapter passes it by, and its own send_until fails with
\* ResourceClosedError before any loopback delivery.
C20_ClosedAdapterHearsNoSend ==
    [][\A a \in constructed :
          (closed[a] /\ last'.op = "send_until") =>
              /\ a \notin peers
              /\ \A i \in DOMAIN calls' : calls'[i].to # a
              /\ last'.self = a =>
                    last'.outcome = ResourceClosedError /\ calls' = <<>>]_vars

\* A started adapter with a promiscuous bank has been closed; its peer has
\* just sent a valid batch successfully and the closed adapter's callback
\* was not invoked.
C20_Witness ==
    \E a \in constructed : \E s \in peers :
        /\ closed[a]
        /\ rx_handler[a] # DefaultHandler
        /\ acceptance_filters[a] = <<new_promiscuous>>
        /\ After("send_until", s) /\ last.outcome = Ok
        /\ Len(last.frames) = 2
        /\ DeliveredTo(a) = <<>>
        /\ DeliveredTo(s) # <<>>

====
